---- MODULE Spec2Model ----
(***************************************************************************)
(* Model of the 8ball character device (src/8ball.c): the open flag        *)
(* dev_open, the message buffer msg, the module usage counter, and the     *)
(* four file operations device_open, device_release, device_read and       *)
(* device_write, called by a set of concurrent callers.                    *)
(***************************************************************************)
EXTENDS Integers, Sequences, FiniteSets

VARIABLES
    charSigned,  \* the build: TRUE when plain char is signed (x86 before -funsigned-char)
    dev_open,    \* atomic_t dev_open
    msg,         \* char msg[MSG_LEN], as unsigned byte values 0..255
    usage,       \* the module's usage count (try_module_get / module_put)
    pc,          \* per caller: where it is in open / release
    open_ret,    \* per caller: what its last device_open returned
    rodata,      \* the build: what lies past the end of the answer literals
    f_pos,       \* per caller: the file position its struct file hands to read and write
    nops,        \* number of read and write calls made so far
    acc,         \* history: the bytes read in this session since a read last started at offset 0
    last,        \* history: the last read or write call of this session, with inputs and results
    question,    \* history: the bytes of the last write if it stored all of them at offset 0
    rd,          \* a thread inside device_read: its loop index i and its local decision
    wr,          \* a thread inside device_write: its copy index i, offset, length and source
    todo         \* a caller's write-all loop: the bytes write() has not accepted yet

vars == <<charSigned, dev_open, msg, usage, pc, open_ret, rodata, f_pos, nops, acc, last,
          question, rd, wr, todo>>

(* What the handlers called as one step each leave alone. *)
ext == <<question, rd, wr, todo>>

(* Program constants *)
MSG_LEN == 80
NUM_CHOICES == 10
CDEV_NOT_USED == 0
CDEV_USED == 1
EBUSY == 16
EFAULT == 14

(* Bounds of the model *)
NumCallers == 2
MaxRaceOps == 1
MaxOps == 4

Callers == 1..NumCallers
Min(a, b) == IF a < b THEN a ELSE b

(* A read that dereferences a wild pointer and kills the calling task. *)
OOPS == -1000

(* The answer strings, as the bytes of the C string literals (without the NUL). *)
Answer0 == <<89, 101, 115, 46, 10>>
Answer1 == <<87, 105, 116, 104, 111, 117, 116, 32, 97, 32, 100, 111, 117, 98, 116, 46, 10>>
Answer2 == <<89, 111, 117, 39, 114, 101, 32, 98, 101, 116, 116, 101, 114, 32, 111, 102, 102, 32, 110, 111, 116, 32, 107, 110, 111, 119, 105, 110, 103, 46, 10>>
Answer3 == <<89, 69, 83, 32, 89, 69, 83, 32, 89, 69, 83, 33, 33, 33, 10>>
Answer4 == <<67, 111, 110, 99, 101, 110, 116, 114, 97, 116, 101, 32, 97, 110, 100, 32, 97, 115, 107, 32, 97, 103, 97, 105, 110, 10>>
Answer5 == <<78, 111, 46, 10>>
Answer6 == <<78, 79, 32, 78, 79, 32, 78, 79, 33, 33, 33, 10>>
Answer7 == <<78, 111, 116, 32, 119, 105, 116, 104, 32, 116, 104, 97, 116, 32, 97, 116, 116, 105, 116, 117, 100, 101, 46, 10>>
Answer8 == <<84, 104, 97, 116, 32, 107, 110, 111, 119, 108, 101, 100, 103, 101, 32, 105, 115, 32, 107, 101, 112, 116, 32, 101, 118, 101, 110, 32, 102, 114, 111, 109, 32, 109, 101, 46, 10>>
Answer9 == <<83, 105, 103, 110, 115, 32, 112, 111, 105, 110, 116, 32, 116, 111, 32, 121, 101, 115, 46, 10>>

(* switch(decision): the string msg_ptr is set to; no case for other values. *)
SwitchDecision(d) ==
    CASE d = 0 -> Answer0
      [] d = 1 -> Answer1
      [] d = 2 -> Answer2
      [] d = 3 -> Answer3
      [] d = 4 -> Answer4
      [] d = 5 -> Answer5
      [] d = 6 -> Answer6
      [] d = 7 -> Answer7
      [] d = 8 -> Answer8
      [] d = 9 -> Answer9

(* The value of a char holding byte b when it is promoted to int. *)
CharToInt(b) == IF charSigned /\ b >= 128 THEN b - 256 ELSE b

(* for(i = 0; i < MSG_LEN; i++) decision += msg[i];  (no int overflow: |sum| <= 80*255) *)
RECURSIVE SumFrom(_, _)
SumFrom(m, i) == IF i >= MSG_LEN THEN 0 ELSE CharToInt(m[i]) + SumFrom(m, i + 1)

(* C's % truncates toward zero: the result has the sign of the dividend. *)
CRem(a, n) == IF a >= 0 THEN a % n ELSE -((-a) % n)

(* decision %= NUM_CHOICES *)
Decision(m) == CRem(SumFrom(m, 0), NUM_CHOICES)

NoCall == [op |-> "none", off |-> 0, len |-> 0, bytes |-> <<>>, good |-> 0,
           ret |-> 0, out |-> <<>>, noff |-> 0]

NoQuestion == [set |-> FALSE, bytes |-> <<>>]
RdIdle == [pc |-> "idle", i |-> 0, decision |-> 0, torn |-> FALSE,
           done |-> FALSE, picked |-> 0, want |-> 0]
WrIdle == [pc |-> "idle", i |-> 0, off |-> 0, len |-> 0, bytes |-> <<>>,
           done |-> FALSE, before |-> 0, after |-> 0]

Init ==
    /\ charSigned \in BOOLEAN
    /\ dev_open = CDEV_NOT_USED
    /\ msg = [i \in 0..(MSG_LEN - 1) |-> 0]
    /\ usage = 0
    /\ pc = [c \in Callers |-> "closed"]
    /\ open_ret = [c \in Callers |-> 0]
    /\ rodata = "unread"
    /\ f_pos = [c \in Callers |-> 0]
    /\ nops = 0
    /\ acc = [valid |-> FALSE, bytes |-> <<>>]
    /\ last = NoCall
    /\ question = NoQuestion
    /\ rd = RdIdle
    /\ wr = WrIdle
    /\ todo = <<>>

(* A caller enters device_open (the VFS has allocated its struct file, f_pos 0). *)
device_open_call(c) ==
    /\ pc[c] = "closed"
    /\ pc' = [pc EXCEPT ![c] = "open_cas"]
    /\ f_pos' = [f_pos EXCEPT ![c] = 0]
    /\ UNCHANGED <<charSigned, open_ret, rodata, dev_open, msg, usage, nops, acc, last>>

(* Mutant: the open flag is set without being tested. *)
device_open_cmpxchg_unchecked(c) ==
    /\ pc[c] = "open_cas"
    /\ dev_open' = CDEV_USED
    /\ pc' = [pc EXCEPT ![c] = "open_get"]
    /\ UNCHANGED <<charSigned, open_ret, rodata, msg, usage, f_pos, nops, acc, last>>

(* Mutant: the open flag is tested but not set. *)
device_open_cmpxchg_noset(c) ==
    /\ pc[c] = "open_cas"
    /\ IF dev_open = CDEV_NOT_USED
       THEN /\ pc' = [pc EXCEPT ![c] = "open_get"]
            /\ UNCHANGED open_ret
       ELSE /\ pc' = [pc EXCEPT ![c] = "closed"]
            /\ open_ret' = [open_ret EXCEPT ![c] = -EBUSY]
    /\ UNCHANGED <<charSigned, dev_open, rodata, msg, usage, f_pos, nops, acc, last>>

(* if(atomic_cmpxchg(&dev_open, CDEV_NOT_USED, CDEV_USED)) return -EBUSY; *)
device_open_cmpxchg(c) ==
    /\ pc[c] = "open_cas"
    /\ IF dev_open = CDEV_NOT_USED
       THEN /\ dev_open' = CDEV_USED
            /\ pc' = [pc EXCEPT ![c] = "open_get"]
            /\ UNCHANGED open_ret
       ELSE /\ UNCHANGED dev_open
            /\ pc' = [pc EXCEPT ![c] = "closed"]
            /\ open_ret' = [open_ret EXCEPT ![c] = -EBUSY]
    /\ UNCHANGED <<charSigned, rodata, msg, usage, f_pos, nops, acc, last>>

(* Mutant: the open succeeds without taking the module reference. *)
device_open_get_noget(c) ==
    /\ pc[c] = "open_get"
    /\ pc' = [pc EXCEPT ![c] = "opened"]
    /\ open_ret' = [open_ret EXCEPT ![c] = 0]
    /\ UNCHANGED <<charSigned, rodata, dev_open, msg, usage, f_pos, nops, acc, last>>

(* try_module_get(THIS_MODULE); return 0; *)
device_open_get(c) ==
    /\ pc[c] = "open_get"
    /\ usage' = usage + 1
    /\ pc' = [pc EXCEPT ![c] = "opened"]
    /\ open_ret' = [open_ret EXCEPT ![c] = 0]
    /\ UNCHANGED <<charSigned, rodata, dev_open, msg, f_pos, nops, acc, last>>

(* Mutant: release leaves the open flag set. *)
device_release_set_keepflag(c) ==
    /\ pc[c] \in {"opened", "killed"}
    /\ pc' = [pc EXCEPT ![c] = "rel_put"]
    /\ acc' = [valid |-> FALSE, bytes |-> <<>>]
    /\ last' = NoCall
    /\ UNCHANGED <<charSigned, dev_open, open_ret, rodata, msg, usage, f_pos, nops>>

(* device_release: atomic_set(&dev_open, CDEV_NOT_USED); *)
device_release_set(c) ==
    /\ pc[c] \in {"opened", "killed"}
    /\ dev_open' = CDEV_NOT_USED
    /\ pc' = [pc EXCEPT ![c] = "rel_put"]
    /\ acc' = [valid |-> FALSE, bytes |-> <<>>]
    /\ last' = NoCall
    /\ UNCHANGED <<charSigned, open_ret, rodata, msg, usage, f_pos, nops>>

(* Mutant: the release clears the message buffer. *)
device_release_put_clear(c) ==
    /\ pc[c] = "rel_put"
    /\ usage' = usage - 1
    /\ pc' = [pc EXCEPT ![c] = "closed"]
    /\ f_pos' = [f_pos EXCEPT ![c] = 0]
    /\ msg' = [i \in 0..(MSG_LEN - 1) |-> 0]
    /\ UNCHANGED <<charSigned, open_ret, rodata, dev_open, nops, acc, last>>

(* device_release: module_put(THIS_MODULE); return 0;  (the struct file is freed) *)
device_release_put(c) ==
    /\ pc[c] = "rel_put"
    /\ usage' = usage - 1
    /\ pc' = [pc EXCEPT ![c] = "closed"]
    /\ f_pos' = [f_pos EXCEPT ![c] = 0]
    /\ UNCHANGED <<charSigned, open_ret, rodata, dev_open, msg, nops, acc, last>>

(* What the loads through a wild msg_ptr find: kind "nul", the byte at
   msg_ptr + *offset is NUL (offset reset, 0 returned); kind "short" or "long", it
   is not, and the copy loop runs until it meets a NUL after one byte or until
   length is used up (with length 0 it does not run at all). GARBAGE stands for
   the non-NUL bytes it copies, whose values are not specified. *)
WildKinds == {"nul", "short", "long"}
GARBAGE == 255
WildRead(kind, off, length) ==
    IF kind = "nul"
    THEN {[ret |-> 0, out |-> <<>>, noff |-> 0, rodata |-> kind]}
    ELSE LET n == IF kind = "short" THEN Min(1, length) ELSE length
         IN  {[ret |-> n, out |-> [i \in 1..n |-> GARBAGE], noff |-> off + n,
               rodata |-> kind]}

(* Mutant: the copy starts at the head of the string whatever the offset. *)
ReadFrom_fromstart(s, off, length, ro) ==
    IF off >= Len(s)
    THEN {[ret |-> 0, out |-> <<>>, noff |-> 0, rodata |-> ro]}
    ELSE LET n == Min(length, Len(s) - off)
         IN  {[ret |-> n, out |-> SubSeq(s, 1, n), noff |-> off + n, rodata |-> ro]}

(* Mutant: the end of the message does not reset the offset. *)
ReadFrom_noreset(s, off, length, ro) ==
    IF off >= Len(s)
    THEN {[ret |-> 0, out |-> <<>>, noff |-> off, rodata |-> ro]}
    ELSE LET n == Min(length, Len(s) - off)
         IN  {[ret |-> n, out |-> SubSeq(s, off + 1, off + n), noff |-> off + n,
               rodata |-> ro]}

(* device_read from the test of the terminator on, with msg_ptr pointing at the
   string literal s: the end-of-message reset, or the copy loop. Past the
   terminator the loads leave the literal and find what the build has put behind
   it, which the first such load reveals. *)
ReadFrom(s, off, length, ro) ==
    IF off > Len(s)
    THEN UNION {WildRead(k, off, length) : k \in IF ro = "unread" THEN WildKinds ELSE {ro}}
    ELSE IF off = Len(s)
         THEN {[ret |-> 0, out |-> <<>>, noff |-> 0, rodata |-> ro]}
         ELSE LET n == Min(length, Len(s) - off)
              IN  {[ret |-> n, out |-> SubSeq(s, off + 1, off + n), noff |-> off + n,
                    rodata |-> ro]}

(* device_read from the switch on, as a relation: the results a call at offset
   off with the given length can have once its loop has left d in decision;
   ReadResults is the whole call on buffer m, run as one step. With no case matching, msg_ptr is uninitialised:
   it holds whatever the stack held, so its loads find anything, or fault and
   kill the caller. *)
ReadResultsFor(d, off, length, ro) ==
    IF d \in 0..(NUM_CHOICES - 1)
    THEN ReadFrom(SwitchDecision(d), off, length, ro)
    ELSE {[r EXCEPT !.rodata = ro] : r \in UNION {WildRead(k, off, length) : k \in WildKinds}}
         \cup {[ret |-> OOPS, out |-> <<>>, noff |-> off, rodata |-> ro]}

ReadResults(m, off, length, ro) == ReadResultsFor(Decision(m), off, length, ro)

(* The lengths callers pass to read, the data they pass to write, and how many
   leading bytes of the user's source copy_from_user can read. *)
ReadLens == {0, 2, 40}
Ramp81 == [i \in 1..(MSG_LEN + 1) |-> i]
WriteInputs == {<<>>, <<101>>, <<255>>, Ramp81}
Readable(bytes) == {Len(bytes) \div 2, Len(bytes)}

device_read(c, length) ==
    /\ pc[c] = "opened"
    /\ \E r \in ReadResults(msg, f_pos[c], length, rodata) :
        /\ f_pos' = [f_pos EXCEPT ![c] = r.noff]
        /\ rodata' = r.rodata
        /\ pc' = [pc EXCEPT ![c] = IF r.ret = OOPS THEN "killed" ELSE "opened"]
        /\ acc' = IF f_pos[c] = 0 THEN [valid |-> TRUE, bytes |-> r.out]
                  ELSE IF acc.valid THEN [acc EXCEPT !.bytes = acc.bytes \o r.out]
                  ELSE acc
        /\ last' = [op |-> "read", off |-> f_pos[c], len |-> length,
                    bytes |-> <<>>, good |-> 0, ret |-> r.ret, out |-> r.out, noff |-> r.noff]
    /\ nops' = nops + 1
    /\ UNCHANGED <<charSigned, open_ret, dev_open, msg, usage>>

(* Mutant: the copy clears the buffer behind the bytes it stores. *)
CopyIn_clobber(m, off, len, bytes) ==
    [i \in 0..(MSG_LEN - 1) |->
        IF off <= i /\ i < off + len THEN bytes[i - off + 1]
        ELSE IF i >= off + len THEN 0 ELSE m[i]]

(* copy_from_user(msg + off, buffer, len) of a fully readable source. *)
CopyIn(m, off, len, bytes) ==
    [i \in 0..(MSG_LEN - 1) |->
        IF off <= i /\ i < off + len THEN bytes[i - off + 1] ELSE m[i]]

(* Mutant: the faulting copy pads with zero bytes to the end of the buffer. *)
CopyFault_padall(m, off, len, bytes, good) ==
    [i \in 0..(MSG_LEN - 1) |->
        IF off <= i /\ i < off + good THEN bytes[i - off + 1]
        ELSE IF off + good <= i THEN 0
        ELSE m[i]]

(* copy_from_user that faults after good bytes: the rest of the destination
   range is padded with zero bytes. *)
CopyFault(m, off, len, bytes, good) ==
    [i \in 0..(MSG_LEN - 1) |->
        IF off <= i /\ i < off + good THEN bytes[i - off + 1]
        ELSE IF off + good <= i /\ i < off + len THEN 0
        ELSE m[i]]

(* Mutant: a full buffer resets the offset and stores the bytes at index 0. *)
WriteResult_wrapstore(m, off, bytes, good) ==
    IF off >= MSG_LEN
    THEN [ret |-> 0, msg |-> CopyIn(m, 0, Min(Len(bytes), MSG_LEN), bytes), noff |-> 0]
    ELSE LET len == Min(Len(bytes), MSG_LEN - off)
         IN  IF good < len
             THEN [ret |-> -EFAULT, msg |-> CopyFault(m, off, len, bytes, good),
                   noff |-> off]
             ELSE [ret |-> len, msg |-> CopyIn(m, off, len, bytes), noff |-> off + len]

(* Mutant: a full buffer returns 0 without resetting the offset. *)
WriteResult_nowrap(m, off, bytes, good) ==
    IF off >= MSG_LEN
    THEN [ret |-> 0, msg |-> m, noff |-> off]
    ELSE LET len == Min(Len(bytes), MSG_LEN - off)
         IN  IF good < len
             THEN [ret |-> -EFAULT, msg |-> CopyFault(m, off, len, bytes, good),
                   noff |-> off]
             ELSE [ret |-> len, msg |-> CopyIn(m, off, len, bytes), noff |-> off + len]

(* Mutant: the length is not clamped to the room left in the buffer. *)
WriteResult_noclamp(m, off, bytes, good) ==
    IF off >= MSG_LEN
    THEN [ret |-> 0, msg |-> m, noff |-> 0]
    ELSE LET len == Len(bytes)
         IN  IF good < len
             THEN [ret |-> -EFAULT, msg |-> CopyFault(m, off, len, bytes, good),
                   noff |-> off]
             ELSE [ret |-> len, msg |-> CopyIn(m, off, len, bytes), noff |-> off + len]

(* device_write as a function of the buffer, the offset, the user's bytes, the
   readable prefix of the source and the fault's treatment of the tail. *)
WriteResult(m, off, bytes, good) ==
    IF off >= MSG_LEN
    THEN [ret |-> 0, msg |-> m, noff |-> 0]
    ELSE LET len == Min(Len(bytes), MSG_LEN - off)
         IN  IF good < len
             THEN [ret |-> -EFAULT, msg |-> CopyFault(m, off, len, bytes, good),
                   noff |-> off]
             ELSE [ret |-> len, msg |-> CopyIn(m, off, len, bytes), noff |-> off + len]

device_write(c, bytes) ==
    /\ pc[c] = "opened"
    /\ \E good \in Readable(bytes) :
        LET w == WriteResult(msg, f_pos[c], bytes, good)
        IN  /\ msg' = w.msg
            /\ f_pos' = [f_pos EXCEPT ![c] = w.noff]
            /\ last' = [op |-> "write", off |-> f_pos[c], len |-> Len(bytes),
                        bytes |-> bytes, good |-> good, ret |-> w.ret, out |-> <<>>, noff |-> w.noff]
    /\ acc' = [valid |-> FALSE, bytes |-> <<>>]
    /\ nops' = nops + 1
    /\ UNCHANGED <<charSigned, open_ret, rodata, dev_open, usage, pc>>

(* One step of caller c, which makes at most maxops read and write calls. *)
Step(c, maxops) ==
    \/ device_open_call(c) /\ UNCHANGED ext
    \/ device_open_cmpxchg(c) /\ UNCHANGED ext
    \/ device_open_get(c) /\ UNCHANGED ext
    \/ device_release_set(c) /\ UNCHANGED ext
    \/ device_release_put(c) /\ UNCHANGED ext
    \/ nops < maxops /\ UNCHANGED ext /\ \E length \in ReadLens : device_read(c, length)
    \/ nops < maxops /\ UNCHANGED ext /\ \E bytes \in WriteInputs : device_write(c, bytes)

(* Any number of callers race for the device. *)
Next == \E c \in Callers : Step(c, MaxRaceOps)

Spec == Init /\ [][Next]_vars

(* One caller uses the device, session after session. *)
NextSession == Step(1, MaxOps)

SpecSession == Init /\ [][NextSession]_vars

(* The history of the question asked: a write that stores all its bytes at offset
   0 asks them; any other write leaves the buffer holding no single question. *)
Asked(bytes) ==
    question' = IF last'.off = 0 /\ last'.ret = Len(bytes)
                THEN [set |-> TRUE, bytes |-> bytes]
                ELSE NoQuestion

(* One caller uses the device, session after session, and the question it asks
   is remembered. *)
NextAsk ==
    \/ device_open_call(1) /\ UNCHANGED ext
    \/ device_open_cmpxchg(1) /\ UNCHANGED ext
    \/ device_open_get(1) /\ UNCHANGED ext
    \/ device_release_set(1) /\ UNCHANGED ext
    \/ device_release_put(1) /\ UNCHANGED ext
    \/ nops < MaxOps /\ UNCHANGED ext /\ \E length \in ReadLens : device_read(1, length)
    \/ /\ nops < MaxOps
       /\ UNCHANGED <<rd, wr, todo>>
       /\ \E bytes \in WriteInputs : device_write(1, bytes) /\ Asked(bytes)

SpecAsk == Init /\ [][NextAsk]_vars

(***************************************************************************)
(* Two threads of one session: the calls in their steps                    *)
(***************************************************************************)

(* The questions the writing thread sends, and the calls the two threads make. *)
TornInputs == {<<4, 4>>, <<101>>}
MaxTornOps == 2

(* device_read is entered: int decision = 0; i = 0. A copy that is under way
   overlaps this read. *)
read_enter ==
    /\ pc[1] = "opened" /\ rd.pc = "idle" /\ nops < MaxTornOps
    /\ rd' = [pc |-> "sum", i |-> 0, decision |-> 0, torn |-> (wr.pc = "copy"),
              done |-> FALSE, picked |-> 0, want |-> 0]
    /\ nops' = nops + 1
    /\ UNCHANGED <<charSigned, dev_open, msg, usage, pc, open_ret, rodata, f_pos,
                   acc, last, question, wr, todo>>

(* Mutant: the loop adds every second byte only. *)
read_add_skip ==
    /\ rd.pc = "sum" /\ rd.i < MSG_LEN
    /\ rd' = [rd EXCEPT !.decision = rd.decision + CharToInt(msg[rd.i]),
                        !.i = Min(rd.i + 2, MSG_LEN)]
    /\ UNCHANGED <<charSigned, dev_open, msg, usage, pc, open_ret, rodata, f_pos,
                   nops, acc, last, question, wr, todo>>

(* One turn of the loop: decision += msg[i]; i++. *)
read_add ==
    /\ rd.pc = "sum" /\ rd.i < MSG_LEN
    /\ rd' = [rd EXCEPT !.decision = rd.decision + CharToInt(msg[rd.i]),
                        !.i = rd.i + 1]
    /\ UNCHANGED <<charSigned, dev_open, msg, usage, pc, open_ret, rodata, f_pos,
                   nops, acc, last, question, wr, todo>>

(* The loop is over: decision %= NUM_CHOICES, the switch, the copy to the user
   and the return. picked keeps the index, want the index of the buffer as it is. *)
read_rest(length) ==
    /\ rd.pc = "sum" /\ rd.i = MSG_LEN
    /\ LET d == CRem(rd.decision, NUM_CHOICES)
       IN  /\ \E r \in ReadResultsFor(d, f_pos[1], length, rodata) :
                /\ f_pos' = [f_pos EXCEPT ![1] = r.noff]
                /\ rodata' = r.rodata
                /\ pc' = [pc EXCEPT ![1] = IF r.ret = OOPS THEN "killed" ELSE "opened"]
                /\ last' = [op |-> "read", off |-> f_pos[1], len |-> length,
                            bytes |-> <<>>, good |-> 0, ret |-> r.ret, out |-> r.out,
                            noff |-> r.noff]
           /\ rd' = [RdIdle EXCEPT !.torn = rd.torn, !.done = TRUE, !.picked = d,
                                   !.want = Decision(msg)]
    /\ UNCHANGED <<charSigned, dev_open, msg, usage, open_ret, nops, acc, question,
                   wr, todo>>

(* device_write is entered: a full buffer returns at once; otherwise len is
   clamped and the copy starts. before and after keep the index of the buffer
   as it is and as the finished copy leaves it. *)
write_enter(bytes) ==
    /\ pc[1] = "opened" /\ wr.pc = "idle" /\ nops < MaxTornOps
    /\ LET off == f_pos[1]
       IN  IF off >= MSG_LEN
           THEN /\ f_pos' = [f_pos EXCEPT ![1] = 0]
                /\ last' = [op |-> "write", off |-> off, len |-> Len(bytes),
                            bytes |-> bytes, good |-> Len(bytes), ret |-> 0,
                            out |-> <<>>, noff |-> 0]
                /\ wr' = WrIdle
           ELSE LET len == Min(Len(bytes), MSG_LEN - off)
                IN  /\ wr' = [pc |-> "copy", i |-> 0, off |-> off, len |-> len,
                              bytes |-> bytes, done |-> FALSE,
                              before |-> Decision(msg),
                              after |-> Decision(CopyIn(msg, off, len, bytes))]
                    /\ UNCHANGED <<f_pos, last>>
    /\ nops' = nops + 1
    /\ UNCHANGED <<charSigned, dev_open, msg, usage, pc, open_ret, rodata, acc,
                   question, rd, todo>>

(* copy_from_user stores the next byte; a checksum loop that is running is
   overlapped by it. *)
write_copy ==
    /\ wr.pc = "copy" /\ wr.i < wr.len
    /\ msg' = [msg EXCEPT ![wr.off + wr.i] = wr.bytes[wr.i + 1]]
    /\ wr' = [wr EXCEPT !.i = wr.i + 1]
    /\ rd' = IF rd.pc = "sum" THEN [rd EXCEPT !.torn = TRUE] ELSE rd
    /\ UNCHANGED <<charSigned, dev_open, usage, pc, open_ret, rodata, f_pos, nops,
                   acc, last, question, todo>>

(* The copy is over: *offset += len; return len. *)
write_exit ==
    /\ wr.pc = "copy" /\ wr.i = wr.len
    /\ f_pos' = [f_pos EXCEPT ![1] = f_pos[1] + wr.len]
    /\ last' = [op |-> "write", off |-> wr.off, len |-> Len(wr.bytes),
                bytes |-> wr.bytes, good |-> Len(wr.bytes), ret |-> wr.len,
                out |-> <<>>, noff |-> f_pos[1] + wr.len]
    /\ wr' = [wr EXCEPT !.pc = "idle", !.done = TRUE]
    /\ UNCHANGED <<charSigned, dev_open, msg, usage, pc, open_ret, rodata, nops,
                   acc, question, rd, todo>>

(* One caller opens the device; two threads that share its descriptor read and
   write; the release runs when both are out of their calls. *)
NextTorn ==
    \/ device_open_call(1) /\ UNCHANGED ext
    \/ device_open_cmpxchg(1) /\ UNCHANGED ext
    \/ device_open_get(1) /\ UNCHANGED ext
    \/ rd.pc = "idle" /\ wr.pc = "idle" /\ device_release_set(1) /\ UNCHANGED ext
    \/ device_release_put(1) /\ UNCHANGED ext
    \/ read_enter
    \/ read_add
    \/ \E length \in ReadLens : read_rest(length)
    \/ \E bytes \in TornInputs : write_enter(bytes)
    \/ write_copy
    \/ write_exit

SpecTorn == Init /\ [][NextTorn]_vars

(***************************************************************************)
(* A caller that writes until its input is accepted                        *)
(***************************************************************************)

(* The inputs of the caller's loop, and the reads and loops it begins. *)
RetryInputs == {<<101>>, <<4, 4>>, Ramp81, Ramp81 \o Ramp81}
MaxLoops == 3

(* The caller has an input of N >= 1 bytes to send. *)
RetryStart(bytes) ==
    /\ pc[1] = "opened" /\ todo = <<>> /\ nops < MaxLoops
    /\ todo' = bytes
    /\ nops' = nops + 1
    /\ UNCHANGED <<charSigned, dev_open, msg, usage, pc, open_ret, rodata, f_pos,
                   acc, last, question, rd, wr>>

(* write() is called with the bytes not yet accepted, all of them readable, and
   the caller drops the bytes the call has accepted. *)
RetryWrite ==
    /\ pc[1] = "opened" /\ todo # <<>>
    /\ LET w == WriteResult(msg, f_pos[1], todo, Len(todo))
       IN  /\ msg' = w.msg
           /\ f_pos' = [f_pos EXCEPT ![1] = w.noff]
           /\ last' = [op |-> "write", off |-> f_pos[1], len |-> Len(todo),
                       bytes |-> todo, good |-> Len(todo), ret |-> w.ret,
                       out |-> <<>>, noff |-> w.noff]
           /\ todo' = SubSeq(todo, w.ret + 1, Len(todo))
    /\ acc' = [valid |-> FALSE, bytes |-> <<>>]
    /\ UNCHANGED <<charSigned, dev_open, usage, pc, open_ret, rodata, nops,
                   question, rd, wr>>

(* One caller, session after session: it reads, or sends an input and stays in
   its loop until the input is accepted. *)
NextRetry ==
    \/ device_open_call(1) /\ UNCHANGED ext
    \/ device_open_cmpxchg(1) /\ UNCHANGED ext
    \/ device_open_get(1) /\ UNCHANGED ext
    \/ todo = <<>> /\ device_release_set(1) /\ UNCHANGED ext
    \/ device_release_put(1) /\ UNCHANGED ext
    \/ todo = <<>> /\ nops < MaxLoops /\ UNCHANGED ext
          /\ \E length \in ReadLens : device_read(1, length)
    \/ \E bytes \in RetryInputs : RetryStart(bytes)
    \/ RetryWrite

(* Every call returns, and the caller in its loop makes the next one. *)
SpecRetry == Init /\ [][NextRetry]_vars /\ WF_vars(RetryWrite)
(***************************************************************************)
(* Properties                                                              *)
(***************************************************************************)

(* A caller holds a session from the compare-and-swap it wins until its release
   starts (a caller killed inside read still holds it until its files are closed). *)
Holds(c) == pc[c] \in {"open_get", "opened", "killed"}

(* The step in which caller c executes the compare-and-swap of device_open. *)
CasStep(c) == pc[c] = "open_cas" /\ pc'[c] # "open_cas"

(* The answer the current buffer selects, when it selects one. *)
Selects == Decision(msg) \in 0..(NUM_CHOICES - 1)
Selected == SwitchDecision(Decision(msg))

(* The answer table and the checksum as the specification states them. *)
AnswerTable == <<Answer0, Answer1, Answer2, Answer3, Answer4,
                 Answer5, Answer6, Answer7, Answer8, Answer9>>
RECURSIVE UnsignedSumFrom(_, _)
UnsignedSumFrom(m, i) == IF i >= MSG_LEN THEN 0 ELSE m[i] + UnsignedSumFrom(m, i + 1)
Checksum(m) == UnsignedSumFrom(m, 0)

(* C1: in every reachable state, under any interleaving of open, read, write and
   close calls of the callers, at most one caller holds an open session. *)
C1_AtMostOneSession ==
    \A c, d \in Callers : Holds(c) /\ Holds(d) => c = d

(* One caller has its session open while another is inside device_open. *)
C1_Witness ==
    \E c, d \in Callers : c # d /\ pc[c] = "opened" /\ pc[d] = "open_cas" /\ nops > 0

(* C2: an open attempted while another caller holds the session fails with
   -EBUSY and changes nothing else; an open attempted when no caller holds the
   session (never opened, or the holder has closed) succeeds. *)
C2_BusyUntilClose ==
    [][\A c \in Callers : CasStep(c) =>
          IF \E d \in Callers \ {c} : Holds(d)
          THEN /\ pc'[c] = "closed"
               /\ open_ret'[c] = -EBUSY
               /\ dev_open' = dev_open
               /\ usage' = usage
          ELSE pc'[c] = "open_get"]_vars

(* A caller has been rejected with -EBUSY while another holds the session. *)
C2_Witness ==
    \E c, d \in Callers :
        c # d /\ pc[d] = "opened" /\ pc[c] = "closed" /\ open_ret[c] = -EBUSY

(* C3: the compare-and-swap of device_open wins exactly when the flag is
   CDEV_NOT_USED, and leaves it CDEV_USED in the same step, so of the callers
   racing inside device_open one wins and no other can: no caller is past a won
   compare-and-swap while another one is. *)
C3_OneWinner ==
    [][\A c \in Callers : CasStep(c) =>
          /\ (pc'[c] = "open_get") <=> (dev_open = CDEV_NOT_USED)
          /\ (pc'[c] = "closed") <=> (dev_open = CDEV_USED)
          /\ dev_open' = CDEV_USED
          /\ \A d \in Callers \ {c} : pc'[c] = "open_get" => ~Holds(d)']_vars

(* Two callers are inside device_open at once and one has won. *)
C3_Witness ==
    \E c, d \in Callers : c # d /\ pc[c] = "open_get" /\ pc[d] = "open_cas"

(* C4: the index a read computes lies in 0..9 for every buffer content. *)
C4_IndexInRange ==
    last.op = "read" => Decision(msg) \in 0..(NUM_CHOICES - 1)

(* C5: a read from offset 0 serves the entry of the answer table that the
   unsigned checksum of the buffer, modulo 10, indexes. *)
C5_AnswerIsTable ==
    (last.op = "read" /\ last.off = 0) =>
        LET s == AnswerTable[(Checksum(msg) % NUM_CHOICES) + 1]
        IN  last.out = SubSeq(s, 1, Min(last.len, Len(s)))

(* C6: two successive reads on an unchanged buffer with the same offset and the
   same length return the same bytes and leave the same offset. *)
C6_Deterministic ==
    [][(last.op = "read" /\ last'.op = "read" /\ msg' = msg
          /\ last'.off = last.off /\ last'.len = last.len) =>
       (last'.ret = last.ret /\ last'.out = last.out /\ last'.noff = last.noff)]_vars

(* C7: the offset of an open session is within the answer the buffer selects. *)
C7_CursorInRange ==
    \A c \in Callers :
        (pc[c] = "opened" /\ Selects) => f_pos[c] \in 0..Len(Selected)

(* C8: while the reads of a session started at offset 0 and no write came
   between, on a buffer that selects an answer s of length L: each read returns
   min(length, L - offset) bytes, never more than length; the bytes returned so
   far are the answer up to the offset; the offset advances by the bytes
   returned; and the read at offset L returns 0 and resets the offset to 0, the
   bytes returned before it being exactly s. *)
C8_Drain ==
    (last.op = "read" /\ acc.valid /\ Selects) =>
        LET s == Selected
            L == Len(Selected)
        IN  /\ last.off <= L
            /\ last.ret = Min(last.len, L - last.off)
            /\ last.ret <= last.len
            /\ acc.bytes = SubSeq(s, 1, last.off + last.ret)
            /\ last.noff = IF last.off = L THEN 0 ELSE last.off + last.ret
            /\ last.off = L => (last.ret = 0 /\ acc.bytes = s /\ Len(acc.bytes) = L)
            /\ \A c \in Callers : pc[c] = "opened" => f_pos[c] = last.noff

(* A written question's answer has been read to its end from offset 0 and the
   further read has returned 0 and reset the offset. *)
C8_Witness ==
    /\ last.op = "read" /\ acc.valid /\ Selects
    /\ Decision(msg) = 1
    /\ last.len >= 1 /\ last.off = Len(Selected) /\ last.ret = 0 /\ last.noff = 0
    /\ acc.bytes = Answer1

(* C9 as stated: a read that returns 0 has reset the offset to 0, for every
   length, 0 included. *)
C9_ZeroMeansReset ==
    (last.op = "read" /\ last.ret = 0) => last.noff = 0

(* C9 amended: a read with length >= 1 that returns 0 has reset the offset to 0;
   a read with length 0 inside the selected answer returns 0 and leaves the
   offset where it was. *)
C9_ZeroMeansResetPositiveLen ==
    /\ (last.op = "read" /\ last.len >= 1 /\ last.ret = 0) => last.noff = 0
    /\ (last.op = "read" /\ last.len = 0 /\ Selects /\ last.off < Len(Selected)) =>
           (last.ret = 0 /\ last.noff = last.off)

(* A read with length >= 1 found the offset at the terminator and returned 0. *)
C9_Witness ==
    /\ last.op = "read" /\ last.len >= 1 /\ last.ret = 0 /\ last.noff = 0
    /\ Selects /\ last.off = Len(Selected)

(* C10: a write at an offset below MSG_LEN whose source is readable stores
   n = min(len(bytes), MSG_LEN - offset) bytes at offset .. offset+n-1, returns n,
   advances the offset by n and leaves the other buffer positions unchanged. *)
C10_WriteFrame ==
    [][(nops' = nops + 1 /\ last'.op = "write" /\ last'.off < MSG_LEN) =>
          LET off == last'.off
              n == Min(last'.len, MSG_LEN - off)
          IN  last'.good >= n =>
                /\ last'.ret = n
                /\ last'.noff = off + n
                /\ \A i \in 0..(MSG_LEN - 1) :
                      msg'[i] = IF off <= i /\ i < off + n
                                THEN last'.bytes[i - off + 1] ELSE msg[i]
                /\ \A c \in Callers : pc[c] = "opened" =>
                      (f_pos[c] = off /\ f_pos'[c] = off + n)]_vars

(* A write at a non-zero offset was cut at the end of the buffer, over bytes an
   earlier write had stored. *)
C10_Witness ==
    /\ last.op = "write" /\ last.off > 0 /\ last.off < MSG_LEN
    /\ last.len > MSG_LEN - last.off
    /\ last.ret = MSG_LEN - last.off
    /\ msg[0] = 101
(* The step in which a write call is made and returns. *)
WriteCall == nops' = nops + 1 /\ last'.op = "write"

(* The sum of the bytes of a sequence. *)
RECURSIVE SumSeq(_)
SumSeq(q) == IF q = <<>> THEN 0 ELSE Head(q) + SumSeq(Tail(q))

(* C11: a write called with the offset at or past MSG_LEN returns 0, resets the
   offset to 0 and leaves the buffer unchanged, whatever bytes it is given and
   whether or not they can be read. *)
C11_FullBufferWraps ==
    [][(WriteCall /\ last'.off >= MSG_LEN) =>
          /\ last'.ret = 0
          /\ last'.noff = 0
          /\ msg' = msg
          /\ \A c \in Callers : pc[c] = "opened" => f_pos'[c] = 0]_vars

(* A write of a non-empty input found the offset at MSG_LEN and returned 0. *)
C11_Witness ==
    /\ last.op = "write" /\ last.off = MSG_LEN /\ last.len >= 1
    /\ last.ret = 0 /\ last.noff = 0

(* C12: when a question Q of at most MSG_LEN bytes has been written at offset 0,
   reads from offset 0 up to the one that returns 0 have returned the answer
   table's entry for the sum of the bytes of Q modulo 10. *)
C12_RoundTrip ==
    (question.set /\ acc.valid /\ last.op = "read" /\ last.len >= 1 /\ last.ret = 0) =>
        acc.bytes = AnswerTable[(SumSeq(question.bytes) % NUM_CHOICES) + 1]

(* C13: a write whose source cannot be read in full returns -EFAULT, leaves the
   offset, the open flag and the usage count as they were, and changes no buffer
   byte outside offset .. offset + min(len, MSG_LEN - offset) - 1. *)
C13_FaultFrame ==
    [][(WriteCall /\ last'.off < MSG_LEN
          /\ last'.good < Min(last'.len, MSG_LEN - last'.off)) =>
          LET off == last'.off
              n == Min(last'.len, MSG_LEN - off)
          IN  /\ last'.ret = -EFAULT
              /\ last'.noff = off
              /\ f_pos' = f_pos
              /\ dev_open' = dev_open
              /\ usage' = usage
              /\ pc' = pc
              /\ \A i \in 0..(MSG_LEN - 1) : (i < off \/ i >= off + n) => msg'[i] = msg[i]]_vars

(* A write at a non-zero offset faulted part of the way through its source, with
   bytes of an earlier write before and behind the range it was copying into. *)
C13_Witness ==
    /\ last.op = "write" /\ last.ret = -EFAULT /\ last.good >= 1
    /\ last.off >= 1 /\ msg[0] = 101
    /\ msg[last.off] = 1 /\ msg[MSG_LEN - 1] = 0
(* C14: the buffer is all zero until the first write, and only a write call
   changes it: no step of an open (won or rejected), no read and no step of a
   release changes any of its MSG_LEN bytes, so the bytes of one session are the
   bytes the next session finds. *)
C14_OnlyWriteChangesMsg ==
    /\ [](nops = 0 => \A i \in 0..(MSG_LEN - 1) : msg[i] = 0)
    /\ [][msg' # msg => WriteCall]_vars

(* The byte written in one session is in the buffer of the session another
   caller has opened after it, an open in between having been rejected. *)
C14_Witness ==
    \E c, d \in Callers :
        /\ c # d /\ pc[c] = "opened" /\ open_ret[d] = -EBUSY /\ pc[d] = "closed"
        /\ nops = 1 /\ last = NoCall /\ msg[0] = 101

(* C15: after every write the offset lies in 0..MSG_LEN, and the bytes a write
   stores lie inside the buffer: a write never returns more than the room between
   the offset it found and MSG_LEN, and the buffer keeps its MSG_LEN positions. *)
C15_WriteInBounds ==
    /\ DOMAIN msg = 0..(MSG_LEN - 1)
    /\ last.op = "write" =>
          /\ last.noff \in 0..MSG_LEN
          /\ last.off < MSG_LEN => last.ret <= MSG_LEN - last.off

(* Writes from offset 0 have filled the buffer, wrapped, and stored again at 0. *)
C15_Witness ==
    /\ last.op = "write" /\ last.off = 0 /\ last.ret = 1 /\ last.noff = 1
    /\ msg[0] = 101 /\ msg[MSG_LEN - 1] = MSG_LEN /\ nops >= 3

(* No open and no release is in progress. *)
Quiescent == \A c \in Callers : pc[c] \in {"closed", "opened", "killed"}

(* C16: an open that succeeds adds one to the usage count, an open rejected with
   -EBUSY leaves the count and the flag, a release takes one off, and nothing
   else changes the count; it is never negative, and with no open or release in
   progress it is 1 when the flag is set and 0 when it is not. *)
C16_UsageFollowsSession ==
    /\ [](/\ usage >= 0
          /\ usage = Cardinality({c \in Callers : pc[c] \in {"opened", "killed", "rel_put"}})
          /\ Quiescent => usage = IF dev_open = CDEV_USED THEN 1 ELSE 0)
    /\ [][\A c \in Callers :
            /\ (pc[c] = "open_get" /\ pc'[c] = "opened") => usage' = usage + 1
            /\ (pc[c] = "open_cas" /\ pc'[c] = "closed") =>
                  usage' = usage /\ dev_open' = dev_open /\ open_ret'[c] = -EBUSY
            /\ (pc[c] = "rel_put" /\ pc'[c] = "closed") => usage' = usage - 1
            /\ pc' = pc => usage' = usage]_vars

(* A release has cleared the flag but not yet dropped its reference while the
   next session is already open: the count is 2. *)
C16_Witness ==
    \E c, d \in Callers : c # d /\ pc[c] = "rel_put" /\ pc[d] = "opened" /\ usage = 2
(* C17: the open flag does not keep a read and a write of one session apart.
   A read whose checksum loop no store of a write has overlapped selects the
   index of the buffer as it is; one session is open all the while, with the
   flag set and the count at 1, whatever its two threads are doing. *)
C17_UntornReadsAgree ==
    /\ (rd.done /\ ~rd.torn) => rd.picked = rd.want
    /\ (rd.pc = "sum" \/ wr.pc = "copy") => dev_open = CDEV_USED /\ usage = 1

(* A read has selected an answer that is neither the answer of the buffer the
   write found nor the answer of the buffer the write left. *)
C17_Witness ==
    /\ rd.done /\ rd.torn /\ wr.done /\ wr.pc = "idle"
    /\ rd.picked \in 0..(NUM_CHOICES - 1)
    /\ rd.picked \notin {wr.before, wr.after}
    /\ SwitchDecision(rd.picked) \notin {SwitchDecision(wr.before), SwitchDecision(wr.after)}
    /\ dev_open = CDEV_USED /\ usage = 1
(* C18: a caller that calls write with what is left of its input until nothing
   is left gets there, sources being readable: a write of a non-empty input that
   has returned 0 is followed by one that accepts at least one byte. *)
C18_RetryFinishes ==
    /\ (todo # <<>>) ~> (todo = <<>>)
    /\ [][(todo # <<>> /\ last.op = "write" /\ last.len >= 1 /\ last.ret = 0) =>
             (last'.op = "write" /\ last'.ret >= 1 /\ Len(todo') < Len(todo))]_vars

(* An input longer than the buffer has been accepted: the last call stored its
   last byte at index 0, after a call that filled the buffer and one that
   returned 0. *)
C18_Witness ==
    /\ todo = <<>> /\ last.op = "write" /\ last.off = 0 /\ last.ret = 1
    /\ last.bytes = <<MSG_LEN + 1>>
    /\ msg[0] = MSG_LEN + 1 /\ msg[MSG_LEN - 1] = MSG_LEN
====
